---- MODULE Spec2Model ----
(***************************************************************************)
(* kubectl plugins: the naming transforms (pkg/kubectl/plugins/helpers.go), *)
(* the environment providers and the exec runner                            *)
(* (pkg/kubectl/plugins/runner.go) and the command binder                   *)
(* (pkg/kubectl/cmd/plugin.go).                                             *)
(*                                                                          *)
(* A Go string is a sequence of one-character strings; a []string is a      *)
(* sequence of such sequences; an error is a string naming it, "nil" for    *)
(* no error.                                                                *)
(***************************************************************************)
EXTENDS Integers, Sequences, FiniteSets, TLC

VARIABLES
    pc,         \* where the program is
    nmOp,       \* naming transform applied: "none", "flagname", "fieldname", "fieldenv"
    nmName,     \* flagName / fieldName argument
    nmPrefix,   \* prefix argument
    nmValue,    \* fieldValue argument
    nmOut,      \* the returned string
    osEnviron,  \* the process's own environment, as os.Environ() gives it
    plugin,     \* Run's plugin argument
    ctx,        \* Run's RunningContext: Args, EnvProvider, WorkingDir
    envIdx,     \* MultiRunningEnvProvider.Env: the member the loop is at
    envAcc,     \* MultiRunningEnvProvider.Env: the local env
    envRet,     \* MultiRunningEnvProvider.Env: the returned entries
    envErr,     \* MultiRunningEnvProvider.Env: the returned error
    invoked,    \* the members whose Env() was called, in call order
    cmd,        \* Run's exec.Cmd: Path base, Args, Env, Dir
    child,      \* the child process: "none", "startfailed", "running", "exited"
    starts,     \* how many times a child process was started
    exitStatus, \* the child's exit status, -1 while it has none
    runErr,     \* Run's returned error, "pending" until it returns
    runCalls,   \* how many times the runner's Run was called
    loaded,     \* loadedPlugins: what f.PluginLoader().Load() returned
    rootCmd,    \* the command NewCmdPlugin returned, with its subcommands
    factory,    \* the cmdutil.Factory f: what its methods return
    executable, \* what os.Executable() returns: the path and the error
    cmdFlags,   \* the flags of the executed command, in VisitAll order
    cfgCalls    \* how many times f.ClientConfig() was called

nmVars  == <<nmOp, nmName, nmPrefix, nmValue, nmOut>>
envVars == <<envIdx, envAcc, envRet, envErr, invoked>>
runVars == <<cmd, child, starts, exitStatus, runErr>>
bindVars == <<loaded, rootCmd, factory, executable, cmdFlags>>

vars == <<pc, nmOp, nmName, nmPrefix, nmValue, nmOut, osEnviron, plugin, ctx,
          envIdx, envAcc, envRet, envErr, invoked, cmd, child, starts, exitStatus,
          runErr, runCalls, loaded, rootCmd, factory, executable, cmdFlags,
          cfgCalls>>

(***************************************************************************)
(* Bounds                                                                   *)
(***************************************************************************)
MaxNameLen == 4
MaxProviders == 3
MaxTemplateLen == 4
MaxPlugins == 3

(***************************************************************************)
(* Strings                                                                  *)
(***************************************************************************)
Lowers == <<"a","b","c","d","e","f","g","h","i","j","k","l","m",
            "n","o","p","q","r","s","t","u","v","w","x","y","z">>
Uppers == <<"A","B","C","D","E","F","G","H","I","J","K","L","M",
            "N","O","P","Q","R","S","T","U","V","W","X","Y","Z">>
Digits == <<"0","1","2","3","4","5","6","7","8","9">>

Range(s) == {s[i] : i \in DOMAIN s}

IsLower(c) == c \in Range(Lowers)
IsUpper(c) == c \in Range(Uppers)
IsDigit(c) == c \in Range(Digits)

\* All strings over alphabet A of length at most n.
StringsUpTo(A, n) == UNION {[1..k -> A] : k \in 0..n}

\* strings.ToUpper, one character.
ToUpperCh(c) ==
    IF IsLower(c) THEN Uppers[CHOOSE i \in DOMAIN Lowers : Lowers[i] = c] ELSE c

\* strings.ToUpper
ToUpper(s) == [i \in DOMAIN s |-> ToUpperCh(s[i])]

\* strings.HasPrefix
HasPrefix(s, p) == Len(s) >= Len(p) /\ SubSeq(s, 1, Len(p)) = p

\* strings.TrimPrefix: s without the leading p, once, when s starts with p.
TrimPrefix(s, p) == IF HasPrefix(s, p) THEN SubSeq(s, Len(p) + 1, Len(s)) ELSE s

\* strings.Replace(s, old, new, -1) for a one-character old and new.
ReplaceAll(s, old, new) == [i \in DOMAIN s |-> IF s[i] = old THEN new ELSE s[i]]

\* strings.Split(s, sep) for a one-character sep: n separators give n+1
\* pieces, empty ones included; the empty string gives one empty piece.
RECURSIVE SplitFrom(_, _, _, _)
SplitFrom(s, sep, i, cur) ==
    IF i > Len(s) THEN <<cur>>
    ELSE IF s[i] = sep THEN <<cur>> \o SplitFrom(s, sep, i + 1, <<>>)
    ELSE SplitFrom(s, sep, i + 1, Append(cur, s[i]))

Split(s, sep) == SplitFrom(s, sep, 1, <<>>)

\* strings.Join(parts, sep)
RECURSIVE Join(_, _)
Join(parts, sep) ==
    IF parts = <<>> THEN <<>>
    ELSE IF Len(parts) = 1 THEN parts[1]
    ELSE parts[1] \o sep \o Join(Tail(parts), sep)

\* fmt.Sprintf("%s=%s", k, v)
SprintfKV(k, v) == k \o <<"=">> \o v

(***************************************************************************)
(* camelcase.Split (github.com/fatih/camelcase), as FieldToEnvName calls it *)
(***************************************************************************)
\* The class of a character: lower 1, upper 2, digit 3, anything else 4.
CharClass(c) ==
    IF IsLower(c) THEN 1 ELSE IF IsUpper(c) THEN 2 ELSE IF IsDigit(c) THEN 3 ELSE 4

\* First pass: consecutive characters of one class form a run.
RECURSIVE ClassRuns(_, _, _)
ClassRuns(s, i, runes) ==
    IF i > Len(s) THEN runes
    ELSE IF i > 1 /\ CharClass(s[i]) = CharClass(s[i - 1])
         THEN ClassRuns(s, i + 1,
                [runes EXCEPT ![Len(runes)] = Append(runes[Len(runes)], s[i])])
         ELSE ClassRuns(s, i + 1, Append(runes, <<s[i]>>))

\* Second pass: an upper-case run followed by a lower-case run gives its last
\* letter to the lower-case run ("PDFL", "oader" -> "PDF", "Loader").
RECURSIVE UpperToLower(_, _)
UpperToLower(runes, i) ==
    IF i > Len(runes) - 1 THEN runes
    ELSE IF IsUpper(runes[i][1]) /\ IsLower(runes[i + 1][1])
         THEN UpperToLower(
                [runes EXCEPT
                    ![i + 1] = <<runes[i][Len(runes[i])]>> \o runes[i + 1],
                    ![i] = SubSeq(runes[i], 1, Len(runes[i]) - 1)],
                i + 1)
         ELSE UpperToLower(runes, i + 1)

\* Third pass: the runs left empty are dropped.
RECURSIVE NonEmpty(_)
NonEmpty(runes) ==
    IF runes = <<>> THEN <<>>
    ELSE IF Len(runes[1]) > 0 THEN <<runes[1]>> \o NonEmpty(Tail(runes))
    ELSE NonEmpty(Tail(runes))

CamelcaseSplit(src) == NonEmpty(UpperToLower(ClassRuns(src, 1, <<>>), 1))

(***************************************************************************)
(* helpers.go                                                               *)
(***************************************************************************)
FlagToEnvNameNoUpper(flagName, prefix) ==
    prefix \o ReplaceAll(TrimPrefix(flagName, <<"-", "-">>), "-", "_")

FlagToEnvName(flagName, prefix) ==
    LET trimmed  == TrimPrefix(flagName, <<"-", "-">>)
        upper    == ToUpper(trimmed)
        replaced == ReplaceAll(upper, "-", "_")
    IN  prefix \o replaced

\* FlagToEnv, for a flag given by its name and its value rendered to text.
FlagToEnv(flagName, flagValue, prefix) ==
    SprintfKV(FlagToEnvName(flagName, prefix), flagValue)

RECURSIVE FieldParts(_)
FieldParts(segments) ==
    IF segments = <<>> THEN <<>>
    ELSE <<ToUpper(Join(CamelcaseSplit(segments[1]), <<"_">>))>>
            \o FieldParts(Tail(segments))

FieldToEnvNameDotJoin(fieldName, prefix) ==
    prefix \o Join(FieldParts(Split(fieldName, ".")), <<".">>)

FieldToEnvName(fieldName, prefix) ==
    prefix \o Join(FieldParts(Split(fieldName, ".")), <<"_">>)

FieldToEnv(fieldName, fieldValue, prefix) ==
    SprintfKV(FieldToEnvName(fieldName, prefix), fieldValue)

(***************************************************************************)
(* The naming transforms applied to bounded inputs                          *)
(***************************************************************************)
FlagAlphabet  == {"-", "f", "B"}
FieldAlphabet == {"a", "B", ".", "1", "_"}

sFooBar      == <<"-","-","f","o","o","-","b","a","r">>
sF           == <<"-","f">>
sFoo3        == <<"-","-","-","f","o","o">>
sAPIPath     == <<"A","P","I","P","a","t","h">>
sCAFile      == <<"C","A","F","i","l","e">>
sImpGroups   == <<"I","m","p","e","r","s","o","n","a","t","e",".",
                  "G","r","o","u","p","s">>
sHost        == <<"H","o","s","t">>
sTimeoutMS   == <<"T","i","m","e","o","u","t","M","S">>
sPREFIX      == <<"P","R","E","F","I","X","_">>
sExampleURL  == <<"h","t","t","p","s",":","/","/","e","x","a","m","p","l","e",
                  ".","c","o","m">>

FlagNames  == StringsUpTo(FlagAlphabet, MaxNameLen) \cup {sFooBar, sF, sFoo3}
FieldNames == StringsUpTo(FieldAlphabet, MaxNameLen)
                \cup {sAPIPath, sCAFile, sImpGroups, sHost, sTimeoutMS}
Prefixes    == {<<>>, sPREFIX}
FieldValues == {<<>>, sExampleURL, <<"a", "=", "b">>}

\* The state of everything a specification does not use.
NoPlugin == [Name |-> <<>>, ShortDesc |-> <<>>, LongDesc |-> <<>>,
             Example |-> <<>>, Command |-> <<>>, Dir |-> <<>>, Tree |-> <<>>]
NoCtx    == [Args |-> <<>>, EnvProvider |-> <<>>, WorkingDir |-> <<>>]
NoCmd    == [Path |-> <<>>, Args |-> <<>>, Env |-> <<>>, Dir |-> <<>>]

NamingIdle == nmOp = "none" /\ nmName = <<>> /\ nmPrefix = <<>>
                /\ nmValue = <<>> /\ nmOut = <<>>
EnvIdle    == envIdx = 1 /\ envAcc = <<>> /\ envRet = <<>> /\ envErr = "nil"
                /\ invoked = <<>>
RunIdle    == cmd = NoCmd /\ child = "none" /\ starts = 0 /\ exitStatus = -1
                /\ runErr = "pending" /\ runCalls = 0
NoResult   == [val |-> <<>>, err |-> "nil"]
NoFactory  == [ClientConfig |-> NoResult, DefaultNamespace |-> NoResult]
NilCmd     == [kind |-> "nil"]
BindIdle   == loaded = <<>> /\ rootCmd = NilCmd /\ factory = NoFactory
                /\ executable = NoResult /\ cmdFlags = <<>> /\ cfgCalls = 0

InitNaming ==
    /\ pc = "naming"
    /\ osEnviron = <<>> /\ plugin = NoPlugin /\ ctx = NoCtx
    /\ EnvIdle /\ RunIdle /\ BindIdle
    /\ nmOp = "none"
    /\ nmName \in FlagNames \cup FieldNames
    /\ nmPrefix \in Prefixes
    /\ nmValue \in FieldValues
    /\ nmOut = <<>>

ApplyFlagToEnvName ==
    /\ pc = "naming"
    /\ nmOp = "none"
    /\ nmName \in FlagNames
    /\ nmOp' = "flagname"
    /\ nmOut' = FlagToEnvName(nmName, nmPrefix)
    /\ UNCHANGED <<pc, nmName, nmPrefix, nmValue, osEnviron, plugin, ctx, envVars, runVars,
                   bindVars, cfgCalls, runCalls>>

ApplyFieldToEnvName ==
    /\ pc = "naming"
    /\ nmOp = "none"
    /\ nmName \in FieldNames
    /\ nmOp' = "fieldname"
    /\ nmOut' = FieldToEnvName(nmName, nmPrefix)
    /\ UNCHANGED <<pc, nmName, nmPrefix, nmValue, osEnviron, plugin, ctx, envVars, runVars,
                   bindVars, cfgCalls, runCalls>>

ApplyFieldToEnv ==
    /\ pc = "naming"
    /\ nmOp = "none"
    /\ nmName \in FieldNames
    /\ nmOp' = "fieldenv"
    /\ nmOut' = FieldToEnv(nmName, nmValue, nmPrefix)
    /\ UNCHANGED <<pc, nmName, nmPrefix, nmValue, osEnviron, plugin, ctx, envVars, runVars,
                   bindVars, cfgCalls, runCalls>>

NextNaming == ApplyFlagToEnvName \/ ApplyFieldToEnvName \/ ApplyFieldToEnv

SpecNaming == InitNaming /\ [][NextNaming]_vars

(***************************************************************************)
(* Claims about the naming transforms (SpecNaming)                          *)
(***************************************************************************)
\* The part of the returned name after the prefix.
AfterPrefix == SubSeq(nmOut, Len(nmPrefix) + 1, Len(nmOut))

\* The number of dashes s starts with.
RECURSIVE LeadingDashes(_)
LeadingDashes(s) ==
    IF s # <<>> /\ Head(s) = "-" THEN 1 + LeadingDashes(Tail(s)) ELSE 0

\* s from its character k+1 on, each dash an underscore, each letter upper case.
EnvBodyFrom(s, k) ==
    [i \in 1..(Len(s) - k) |->
        IF s[i + k] = "-" THEN "_" ELSE ToUpperCh(s[i + k])]

sPREFIX_FOO_BAR == <<"P","R","E","F","I","X","_","F","O","O","_","B","A","R">>
sPREFIX__FOO    == <<"P","R","E","F","I","X","_","_","F","O","O">>

\* C9 as claimed: for a flag name containing dashes, FlagToEnvName returns the
\* prefix followed by the name with every leading option-marker dash stripped,
\* uppercased, each remaining dash an underscore; nothing after the prefix
\* derives from a leading dash ("-f", "---foo").
C9_AnyLeadingMarkerStripped ==
    (nmOp = "flagname" /\ "-" \in Range(nmName)) =>
        /\ HasPrefix(nmOut, nmPrefix)
        /\ "-" \notin Range(AfterPrefix)
        /\ AfterPrefix = EnvBodyFrom(nmName, LeadingDashes(nmName))

\* C9 as amended: for a flag name containing dashes, FlagToEnvName returns the
\* prefix followed by the name with one leading "--" stripped when it is there,
\* uppercased, every other dash (a further leading one too) an underscore; the
\* part after the prefix holds no dash.
C9_OneDoubleDashStripped ==
    (nmOp = "flagname" /\ "-" \in Range(nmName)) =>
        /\ HasPrefix(nmOut, nmPrefix)
        /\ "-" \notin Range(AfterPrefix)
        /\ AfterPrefix =
             EnvBodyFrom(nmName,
                IF Len(nmName) >= 2 /\ nmName[1] = "-" /\ nmName[2] = "-"
                THEN 2 ELSE 0)
        /\ (nmName = sFooBar /\ nmPrefix = sPREFIX) => nmOut = sPREFIX_FOO_BAR

\* C9 witness: "---foo" under "PREFIX_" has been transformed; the third dash
\* is left as an underscore.
C9_Witness ==
    /\ nmOp = "flagname"
    /\ nmName = sFoo3
    /\ nmPrefix = sPREFIX
    /\ nmOut = sPREFIX__FOO

\* An underscore separates s[i-1] and s[i] inside a segment: the class of the
\* character changes (upper to lower is no boundary), or an upper-case run
\* ends one letter before a lower-case letter.
WordBoundary(s, i) ==
    /\ i > 1
    /\ s[i - 1] # "."
    /\ s[i] # "."
    /\ \/ /\ CharClass(s[i - 1]) # CharClass(s[i])
          /\ ~(IsUpper(s[i - 1]) /\ IsLower(s[i]))
       \/ /\ IsUpper(s[i - 1])
          /\ IsUpper(s[i])
          /\ i < Len(s)
          /\ IsLower(s[i + 1])

RECURSIVE FieldBody(_, _)
FieldBody(s, i) ==
    IF i > Len(s) THEN <<>>
    ELSE (IF s[i] = "." THEN <<"_">>
          ELSE (IF WordBoundary(s, i) THEN <<"_">> ELSE <<>>) \o <<ToUpperCh(s[i])>>)
         \o FieldBody(s, i + 1)

sAPI_PATH           == <<"A","P","I","_","P","A","T","H">>
sCA_FILE            == <<"C","A","_","F","I","L","E">>
sIMPERSONATE_GROUPS == <<"I","M","P","E","R","S","O","N","A","T","E","_",
                         "G","R","O","U","P","S">>
sPREFIX_HOST_URL    == <<"P","R","E","F","I","X","_","H","O","S","T","=",
                         "h","t","t","p","s",":","/","/","e","x","a","m","p","l","e",
                         ".","c","o","m">>

\* C10: FieldToEnvName returns the prefix, then the '.'-separated segments in
\* order joined by underscores, each split at its camel-case word boundaries,
\* rejoined with underscores and uppercased, a run of upper-case letters kept
\* as one word (APIPath: API_PATH, CAFile: CA_FILE, Impersonate.Groups:
\* IMPERSONATE_GROUPS); FieldToEnv is that name, '=', and the value unchanged
\* ("Host", "https://example.com", "PREFIX_": "PREFIX_HOST=https://example.com").
C10_FieldToEnvName ==
    /\ nmOp = "fieldname" =>
        /\ nmOut = nmPrefix \o FieldBody(nmName, 1)
        /\ nmName = sAPIPath => AfterPrefix = sAPI_PATH
        /\ nmName = sCAFile => AfterPrefix = sCA_FILE
        /\ nmName = sImpGroups => AfterPrefix = sIMPERSONATE_GROUPS
    /\ nmOp = "fieldenv" =>
        /\ nmOut = nmPrefix \o FieldBody(nmName, 1) \o <<"=">> \o nmValue
        /\ (nmName = sHost /\ nmValue = sExampleURL /\ nmPrefix = sPREFIX)
              => nmOut = sPREFIX_HOST_URL

\* C10 witness: "Impersonate.Groups" under "PREFIX_" has been transformed.
C10_Witness ==
    /\ nmOp = "fieldname"
    /\ nmName = sImpGroups
    /\ nmPrefix = sPREFIX
    /\ nmOut = sPREFIX \o sIMPERSONATE_GROUPS

(***************************************************************************)
(* runner.go: the environment providers                                     *)
(***************************************************************************)
\* A RunningEnvProvider that returns the entries and the error it holds.
StubProvider(out, err) == [kind |-> "stub", out |-> out, err |-> err]

\* A nil *Plugin.
NilPlugin == [nil |-> TRUE]

sCallerKey           == <<"K","U","B","E","C","T","L","_","P","L","U","G","I","N","S","_","C","A","L","L","E","R">>
sDescriptorPrefix    == <<"K","U","B","E","C","T","L","_","P","L","U","G","I","N","S","_","D","E","S","C","R","I","P","T","O","R","_">>
sGlobalFlagPrefix    == <<"K","U","B","E","C","T","L","_","P","L","U","G","I","N","S","_","G","L","O","B","A","L","_","F","L","A","G","_">>
sCurrentNamespaceKey == <<"K","U","B","E","C","T","L","_","P","L","U","G","I","N","S","_","C","U","R","R","E","N","T","_","N","A","M","E","S","P","A","C","E">>
sRestConfigPrefix    == <<"K","U","B","E","C","T","L","_","P","L","U","G","I","N","S","_","R","E","S","T","_","C","L","I","E","N","T","_","C","O","N","F","I","G","_">>

\* strconv.FormatInt(n, 10) for n >= 0
RECURSIVE FormatInt(_)
FormatInt(n) ==
    IF n < 10 THEN <<Digits[n + 1]>>
    ELSE FormatInt(n \div 10) \o <<Digits[(n % 10) + 1]>>

\* strconv.FormatBool
FormatBool(b) == IF b THEN <<"t","r","u","e">> ELSE <<"f","a","l","s","e">>

\* time.Duration.String for a duration of secs whole seconds, under a minute.
DurationString(secs) == FormatInt(secs) \o <<"s">>

\* PluginCallerEnvProvider.Env, os.Executable() returning exe.
PluginCallerEnv(exe) ==
    IF exe.err # "nil" THEN [env |-> <<>>, err |-> exe.err]
    ELSE [env |-> <<SprintfKV(sCallerKey, exe.val)>>, err |-> "nil"]

\* The descriptor's entries with the command template ahead of the example.
PluginDescriptorEnvCommandFirst(p) ==
    IF "nil" \in DOMAIN p THEN [env |-> <<>>, err |-> "ErrPluginNotPresent"]
    ELSE LET prefix == sDescriptorPrefix
         IN  [env |-> << FieldToEnv(<<"N","a","m","e">>, p.Name, prefix),
                         FieldToEnv(<<"S","h","o","r","t","D","e","s","c">>, p.ShortDesc, prefix),
                         FieldToEnv(<<"L","o","n","g","D","e","s","c">>, p.LongDesc, prefix),
                         FieldToEnv(<<"C","o","m","m","a","n","d">>, p.Command, prefix),
                         FieldToEnv(<<"E","x","a","m","p","l","e">>, p.Example, prefix) >>,
              err |-> "nil"]

\* PluginDescriptorEnvProvider.Env
PluginDescriptorEnv(p) ==
    IF "nil" \in DOMAIN p THEN [env |-> <<>>, err |-> "ErrPluginNotPresent"]
    ELSE LET prefix == sDescriptorPrefix
         IN  [env |-> << FieldToEnv(<<"N","a","m","e">>, p.Name, prefix),
                         FieldToEnv(<<"S","h","o","r","t","D","e","s","c">>, p.ShortDesc, prefix),
                         FieldToEnv(<<"L","o","n","g","D","e","s","c">>, p.LongDesc, prefix),
                         FieldToEnv(<<"E","x","a","m","p","l","e">>, p.Example, prefix),
                         FieldToEnv(<<"C","o","m","m","a","n","d">>, p.Command, prefix) >>,
              err |-> "nil"]

\* OSEnvProvider.Env
OSEnv == [env |-> osEnviron, err |-> "nil"]

\* EmptyEnvProvider.Env
EmptyEnv == [env |-> <<>>, err |-> "nil"]

\* flagsPluginEnvProvider.Env: one entry for each flag VisitAll visits.
FlagsPluginEnv(flags) ==
    LET prefix == sGlobalFlagPrefix
    IN  [env |-> [i \in DOMAIN flags |->
                    FlagToEnv(flags[i].Name, flags[i].Value, prefix)],
         err |-> "nil"]

\* factoryAttrsPluginEnvProvider.Env
FactoryAttrsPluginEnv(f) ==
    IF f.DefaultNamespace.err # "nil"
    THEN [env |-> <<>>, err |-> f.DefaultNamespace.err]
    ELSE [env |-> <<SprintfKV(sCurrentNamespaceKey, f.DefaultNamespace.val)>>,
          err |-> "nil"]

\* restClientConfigPluginEnvProvider.Env
RestClientConfigPluginEnv(cfg) ==
    LET prefix == sRestConfigPrefix
    IN  [env |-> <<
        FieldToEnv(<<"H","o","s","t">>,
                   cfg.Host, prefix),
        FieldToEnv(<<"A","P","I","P","a","t","h">>,
                   cfg.APIPath, prefix),
        FieldToEnv(<<"P","r","e","f","i","x">>,
                   cfg.Prefix, prefix),
        FieldToEnv(<<"U","s","e","r","n","a","m","e">>,
                   cfg.Username, prefix),
        FieldToEnv(<<"P","a","s","s","w","o","r","d">>,
                   cfg.Password, prefix),
        FieldToEnv(<<"B","e","a","r","e","r","T","o","k","e","n">>,
                   cfg.BearerToken, prefix),
        FieldToEnv(<<"I","m","p","e","r","s","o","n","a","t","e",".","U","s","e","r","N","a","m","e">>,
                   cfg.ImpersonateUserName, prefix),
        FieldToEnv(<<"I","m","p","e","r","s","o","n","a","t","e",".","G","r","o","u","p","s">>,
                   Join(cfg.ImpersonateGroups, <<",">>), prefix),
        FieldToEnv(<<"I","n","s","e","c","u","r","e">>,
                   FormatBool(cfg.Insecure), prefix),
        FieldToEnv(<<"S","e","r","v","e","r","N","a","m","e">>,
                   cfg.ServerName, prefix),
        FieldToEnv(<<"C","e","r","t","F","i","l","e">>,
                   cfg.CertFile, prefix),
        FieldToEnv(<<"K","e","y","F","i","l","e">>,
                   cfg.KeyFile, prefix),
        FieldToEnv(<<"C","A","F","i","l","e">>,
                   cfg.CAFile, prefix),
        FieldToEnv(<<"C","e","r","t","D","a","t","a">>,
                   cfg.CertData, prefix),
        FieldToEnv(<<"K","e","y","D","a","t","a">>,
                   cfg.KeyData, prefix),
        FieldToEnv(<<"C","A","D","a","t","a">>,
                   cfg.CAData, prefix),
        FieldToEnv(<<"U","s","e","r","A","g","e","n","t">>,
                   cfg.UserAgent, prefix),
        FieldToEnv(<<"T","i","m","e","o","u","t">>,
                   DurationString(cfg.Timeout), prefix),
        FieldToEnv(<<"T","i","m","e","o","u","t","M","S">>,
                   FormatInt(cfg.Timeout * 1000), prefix) >>,
         err |-> "nil"]

\* provider.Env() of a member of the list: the entries and the error.
ProviderEnv(p) ==
    CASE p.kind = "stub"             -> [env |-> p.out, err |-> p.err]
      [] p.kind = "caller"           -> PluginCallerEnv(executable)
      [] p.kind = "os"               -> OSEnv
      [] p.kind = "empty"            -> EmptyEnv
      [] p.kind = "descriptor"       -> PluginDescriptorEnv(p.Plugin)
      [] p.kind = "flags"            -> FlagsPluginEnv(p.cmd)
      [] p.kind = "factoryAttrs"     -> FactoryAttrsPluginEnv(p.factory)
      [] p.kind = "restClientConfig" -> RestClientConfigPluginEnv(p.cfg)

\* One turn of the loop of MultiRunningEnvProvider.Env with the failure
\* returned together with the entries gathered so far.
MultiEnvIterPartial ==
    /\ pc = "env"
    /\ envIdx <= Len(ctx.EnvProvider)
    /\ LET r == ProviderEnv(ctx.EnvProvider[envIdx])
       IN  /\ invoked' = Append(invoked, envIdx)
           /\ IF r.err # "nil"
              THEN /\ envRet' = envAcc
                   /\ envErr' = r.err
                   /\ pc' = "env_done"
                   /\ UNCHANGED <<envIdx, envAcc>>
              ELSE /\ envAcc' = envAcc \o r.env
                   /\ envIdx' = envIdx + 1
                   /\ UNCHANGED <<pc, envRet, envErr>>
    /\ UNCHANGED <<nmVars, bindVars, cfgCalls, runCalls, osEnviron, plugin, ctx, runVars>>

\* One turn of the loop with the member's entries put in front.
MultiEnvIterPrepend ==
    /\ pc = "env"
    /\ envIdx <= Len(ctx.EnvProvider)
    /\ LET r == ProviderEnv(ctx.EnvProvider[envIdx])
       IN  /\ invoked' = Append(invoked, envIdx)
           /\ IF r.err # "nil"
              THEN /\ envRet' = <<>>
                   /\ envErr' = r.err
                   /\ pc' = "env_done"
                   /\ UNCHANGED <<envIdx, envAcc>>
              ELSE /\ envAcc' = r.env \o envAcc
                   /\ envIdx' = envIdx + 1
                   /\ UNCHANGED <<pc, envRet, envErr>>
    /\ UNCHANGED <<nmVars, bindVars, cfgCalls, runCalls, osEnviron, plugin, ctx, runVars>>

\* One turn of the loop with a failure remembered and the loop going on to
\* the next member.
MultiEnvIterContinue ==
    /\ pc = "env"
    /\ envIdx <= Len(ctx.EnvProvider)
    /\ LET r == ProviderEnv(ctx.EnvProvider[envIdx])
       IN  /\ invoked' = Append(invoked, envIdx)
           /\ envIdx' = envIdx + 1
           /\ IF r.err # "nil"
              THEN /\ envErr' = r.err
                   /\ UNCHANGED <<pc, envRet, envAcc>>
              ELSE /\ envAcc' = envAcc \o r.env
                   /\ UNCHANGED <<pc, envRet, envErr>>
    /\ UNCHANGED <<nmVars, bindVars, cfgCalls, runCalls, osEnviron, plugin, ctx, runVars>>

\* MultiRunningEnvProvider.Env, one turn of the loop: the member's Env() is
\* called; its failure is returned at once with no entries, its entries are
\* appended otherwise.
MultiEnvIter ==
    /\ pc = "env"
    /\ envIdx <= Len(ctx.EnvProvider)
    /\ LET r == ProviderEnv(ctx.EnvProvider[envIdx])
       IN  /\ invoked' = Append(invoked, envIdx)
           /\ IF r.err # "nil"
              THEN /\ envRet' = <<>>
                   /\ envErr' = r.err
                   /\ pc' = "env_done"
                   /\ UNCHANGED <<envIdx, envAcc>>
              ELSE /\ envAcc' = envAcc \o r.env
                   /\ envIdx' = envIdx + 1
                   /\ UNCHANGED <<pc, envRet, envErr>>
    /\ UNCHANGED <<nmVars, bindVars, cfgCalls, runCalls, osEnviron, plugin, ctx, runVars>>

\* MultiRunningEnvProvider.Env, after the loop: the gathered entries, no error.
MultiEnvReturn ==
    /\ pc = "env"
    /\ envIdx > Len(ctx.EnvProvider)
    /\ envRet' = envAcc
    /\ envErr' = "nil"
    /\ pc' = "env_done"
    /\ UNCHANGED <<nmVars, bindVars, cfgCalls, runCalls, osEnviron, plugin, ctx, envIdx, envAcc, invoked, runVars>>

(***************************************************************************)
(* A composite provider over bounded member lists                           *)
(***************************************************************************)
eA == <<"A", "=", "1">>
eB == <<"B", "=", "2">>
eV == <<"V", "=", "c">>

StubProviders ==
    { StubProvider(<<>>, "nil"), StubProvider(<<eA>>, "nil"),
      StubProvider(<<eB, eA>>, "nil"),
      StubProvider(<<>>, "err1"), StubProvider(<<eV>>, "err2") }

ProviderLists == StringsUpTo(StubProviders, MaxProviders)

InitEnv ==
    /\ pc = "env"
    /\ NamingIdle /\ EnvIdle /\ RunIdle /\ BindIdle
    /\ osEnviron = <<>>
    /\ plugin = NoPlugin
    /\ \E pl \in ProviderLists : ctx = [NoCtx EXCEPT !.EnvProvider = pl]

NextEnv == MultiEnvIter \/ MultiEnvReturn

SpecEnv == InitEnv /\ [][NextEnv]_vars

(***************************************************************************)
(* Claims about the composite provider (SpecEnv)                            *)
(***************************************************************************)
Members == ctx.EnvProvider

\* What member i returns.
MemberErr(i) == ProviderEnv(Members[i]).err
MemberEnv(i) == ProviderEnv(Members[i]).env

FailingMembers == {i \in DOMAIN Members : MemberErr(i) # "nil"}

FirstFailing == CHOOSE i \in FailingMembers : \A j \in FailingMembers : i <= j

\* The number of entries the members before member i return.
RECURSIVE EntriesBefore(_)
EntriesBefore(i) == IF i <= 1 THEN 0 ELSE EntriesBefore(i - 1) + Len(MemberEnv(i - 1))

\* C1: when a member fails, Env() returns the failure of the first failing
\* member in list order and no entry at all.
C1_FirstFailureNoEntries ==
    (pc = "env_done" /\ FailingMembers # {}) =>
        /\ envErr = MemberErr(FirstFailing)
        /\ envRet = <<>>

\* C1 witness: [A, B, C] with A and C returning entries and B failing has
\* returned B's failure and nothing else.
C1_Witness ==
    /\ pc = "env_done"
    /\ Len(Members) = 3
    /\ FailingMembers = {2}
    /\ MemberEnv(1) # <<>>
    /\ MemberEnv(3) # <<>>
    /\ envErr = MemberErr(2)
    /\ envRet = <<>>

\* C2: when every member succeeds, Env() succeeds and returns the members'
\* entries concatenated in list order, each member's order kept, nothing
\* added, dropped or de-duplicated.
C2_Concatenation ==
    (pc = "env_done" /\ FailingMembers = {}) =>
        /\ envErr = "nil"
        /\ Len(envRet) = EntriesBefore(Len(Members) + 1)
        /\ \A i \in DOMAIN Members : \A k \in DOMAIN MemberEnv(i) :
              envRet[EntriesBefore(i) + k] = MemberEnv(i)[k]

\* C2 witness: [A, B] with A returning A=1 and B returning B=2, A=1 has
\* returned A=1, B=2, A=1: the repeated entry is kept.
C2_Witness ==
    /\ pc = "env_done"
    /\ Len(Members) = 2
    /\ MemberEnv(1) = <<eA>>
    /\ MemberEnv(2) = <<eB, eA>>
    /\ envErr = "nil"
    /\ envRet = <<eA, eB, eA>>

\* C12: the members' Env() are called in list order, each at most once, and
\* none after a member that failed: the calls made so far are those of
\* members 1, 2, ... in this order, none of them past the first failing
\* member, and when Env() returns they are those of the members up to and
\* including the first failing one, of all the members when none fails.
C12_InvokedPrefix ==
    /\ invoked = [k \in 1..Len(invoked) |-> k]
    /\ Len(invoked) <= Len(Members)
    /\ \A k \in DOMAIN invoked : \A j \in FailingMembers : invoked[k] <= j
    /\ pc = "env_done" =>
          Len(invoked) = IF FailingMembers = {} THEN Len(Members) ELSE FirstFailing

\* C12 witness: of [A, B, C] with B failing and C able to return entries,
\* A and B have been called, in this order, and C has not.
C12_Witness ==
    /\ pc = "env_done"
    /\ Len(Members) = 3
    /\ FailingMembers = {2}
    /\ MemberEnv(3) # <<>>
    /\ invoked = <<1, 2>>

(***************************************************************************)
(* runner.go: ExecPluginRunner.Run                                          *)
(***************************************************************************)
\* os.Getenv against a process environment of KEY=VALUE entries: the value
\* of the first entry with that key, the empty string when there is none.
RECURSIVE Getenv(_, _)
Getenv(key, environ) ==
    IF key = <<>> \/ environ = <<>> THEN <<>>
    ELSE IF HasPrefix(Head(environ), key \o <<"=">>)
         THEN SubSeq(Head(environ), Len(key) + 2, Len(Head(environ)))
         ELSE Getenv(key, Tail(environ))

IsAlphaNum(c) == c = "_" \/ IsDigit(c) \/ IsLower(c) \/ IsUpper(c)

IsShellSpecialVar(c) == c \in {"*", "#", "$", "@", "!", "?", "-"} \/ IsDigit(c)

\* os.getShellName for a name without braces: the length of the variable
\* name that starts at s[j].
RECURSIVE AlphaNumRun(_, _)
AlphaNumRun(s, j) ==
    IF j <= Len(s) /\ IsAlphaNum(s[j]) THEN 1 + AlphaNumRun(s, j + 1) ELSE 0

ShellNameLen(s, j) == IF IsShellSpecialVar(s[j]) THEN 1 ELSE AlphaNumRun(s, j)

\* os.Expand: each $name that is not the last character is replaced by the
\* value of name; a $ followed by no name is dropped.
RECURSIVE ExpandFrom(_, _, _)
ExpandFrom(s, j, environ) ==
    IF j > Len(s) THEN <<>>
    ELSE IF s[j] = "$" /\ j + 1 <= Len(s)
         THEN LET w == ShellNameLen(s, j + 1)
              IN  Getenv(SubSeq(s, j + 1, j + w), environ)
                    \o ExpandFrom(s, j + 1 + w, environ)
         ELSE <<s[j]>> \o ExpandFrom(s, j + 1, environ)

\* os.ExpandEnv in a process whose environment is environ.
ExpandEnv(s, environ) == ExpandFrom(s, 1, environ)

\* The entries the members of a provider list return, failures skipped.
RECURSIVE ComposedEntries(_)
ComposedEntries(pl) ==
    IF pl = <<>> THEN <<>>
    ELSE (IF ProviderEnv(Head(pl)).err = "nil" THEN ProviderEnv(Head(pl)).env ELSE <<>>)
            \o ComposedEntries(Tail(pl))

\* The command line with the template expanded against the environment the
\* context composes for the child, the process's own after it.
RunCommandLineComposed(p, c, environ) ==
    LET command == Split(ExpandEnv(p.Command, ComposedEntries(c.EnvProvider) \o environ), " ")
    IN  [base |-> command[1],
         args |-> (IF Len(command) > 1 THEN Tail(command) ELSE <<>>) \o c.Args]

\* Run, lines 52-58: base and args of plugin p in context c, in a process
\* whose environment is environ.
RunCommandLine(p, c, environ) ==
    LET command == Split(ExpandEnv(p.Command, environ), " ")
    IN  [base |-> command[1],
         args |-> (IF Len(command) > 1 THEN Tail(command) ELSE <<>>) \o c.Args]

\* Run up to its call of ctx.EnvProvider.Env(): the exec.Cmd is built.
RunCommand ==
    /\ pc = "run_call"
    /\ LET cl == RunCommandLine(plugin, ctx, osEnviron)
       IN  cmd' = [Path |-> cl.base, Args |-> cl.args, Env |-> <<>>, Dir |-> <<>>]
    /\ pc' = "env"
    /\ envIdx' = 1
    /\ envAcc' = <<>>
    /\ invoked' = <<>>
    /\ runCalls' = runCalls + 1
    /\ UNCHANGED <<nmVars, bindVars, cfgCalls, osEnviron, plugin, ctx, envRet, envErr,
                   child, starts, exitStatus, runErr>>

\* Env() failed and the child is started with what Env() returned all the same.
RunEnvFailedBestEffort ==
    /\ pc = "env_done"
    /\ envErr # "nil"
    /\ cmd' = [cmd EXCEPT !.Env = envRet, !.Dir = ctx.WorkingDir]
    /\ child' = "running"
    /\ starts' = starts + 1
    /\ pc' = "run_wait"
    /\ UNCHANGED <<nmVars, bindVars, cfgCalls, runCalls, osEnviron, plugin, ctx, envVars, exitStatus, runErr>>

\* Run, lines 66-69: Env() failed, Run returns its error.
RunEnvFailed ==
    /\ pc = "env_done"
    /\ envErr # "nil"
    /\ runErr' = envErr
    /\ pc' = "run_done"
    /\ UNCHANGED <<nmVars, bindVars, cfgCalls, runCalls, osEnviron, plugin, ctx, envVars, cmd, child, starts,
                   exitStatus>>

\* Run, lines 70-74, cmd.Run's start of the process: it fails (always so for
\* an empty path) and Run returns the failure, or the child runs.
RunStart ==
    /\ pc = "env_done"
    /\ envErr = "nil"
    /\ cmd' = [cmd EXCEPT !.Env = envRet, !.Dir = ctx.WorkingDir]
    /\ \/ /\ child' = "startfailed"
          /\ runErr' = "ErrStart"
          /\ pc' = "run_done"
          /\ UNCHANGED starts
       \/ /\ cmd.Path # <<>>
          /\ child' = "running"
          /\ starts' = starts + 1
          /\ pc' = "run_wait"
          /\ UNCHANGED runErr
    /\ UNCHANGED <<nmVars, bindVars, cfgCalls, runCalls, osEnviron, plugin, ctx, envVars, exitStatus>>

\* The child's exit with Run returning no error whatever the status.
RunWaitIgnoresStatus ==
    /\ pc = "run_wait"
    /\ \E status \in {0, 1} :
          /\ exitStatus' = status
          /\ runErr' = "nil"
    /\ child' = "exited"
    /\ pc' = "run_done"
    /\ UNCHANGED <<nmVars, bindVars, cfgCalls, runCalls, osEnviron, plugin, ctx, envVars, cmd, starts>>

\* Run, line 74, cmd.Run's wait: the child exits and Run returns, with an
\* error when the status is not zero.
RunWait ==
    /\ pc = "run_wait"
    /\ \E status \in {0, 1} :
          /\ exitStatus' = status
          /\ runErr' = IF status = 0 THEN "nil" ELSE "ErrExit"
    /\ child' = "exited"
    /\ pc' = "run_done"
    /\ UNCHANGED <<nmVars, bindVars, cfgCalls, runCalls, osEnviron, plugin, ctx, envVars, cmd, starts>>

(***************************************************************************)
(* Run over bounded templates, arguments and environments                   *)
(***************************************************************************)
TemplateAlphabet == {"e", " ", "\t", "$", "V"}
Templates == StringsUpTo(TemplateAlphabet, MaxTemplateLen)

ArgLists == { <<>>, << <<>>, <<"x", " ", "y">> >> }

AmbientEnvs == { <<>>, << <<"V", "=", "a">> >>, << <<"V", "=", "a", " ", "b">> >> }

RunProviderLists ==
    { <<>>,
      << StubProvider(<<eV>>, "nil") >>,
      << StubProvider(<<eA>>, "nil"), StubProvider(<<>>, "err1"),
         StubProvider(<<eB, eA>>, "nil") >> }

InitRun ==
    /\ pc = "run_call"
    /\ NamingIdle /\ EnvIdle /\ RunIdle /\ BindIdle
    /\ osEnviron \in AmbientEnvs
    /\ \E t \in Templates : plugin = [NoPlugin EXCEPT !.Command = t]
    /\ \E a \in ArgLists, pl \in RunProviderLists :
          ctx = [Args |-> a, EnvProvider |-> pl, WorkingDir |-> <<"/", "p">>]

NextRun ==
    \/ RunCommand
    \/ MultiEnvIter
    \/ MultiEnvReturn
    \/ RunEnvFailed
    \/ RunStart
    \/ RunWait

SpecRun == InitRun /\ [][NextRun]_vars

(***************************************************************************)
(* Claims about ExecPluginRunner.Run (SpecRun)                              *)
(***************************************************************************)
\* Run has built its exec.Cmd.
CmdBuilt == pc \in {"env", "env_done", "run_wait", "run_done"}

\* The child's argument vector: the executable, then its arguments.
Argv == <<cmd.Path>> \o cmd.Args

\* C3: when ctx.EnvProvider.Env() fails, Run returns that failure and no
\* child process is ever started; a child is started only in a run whose
\* whole environment was composed, and it is given that environment.
C3_NoChildOnEnvFailure ==
    /\ FailingMembers # {} => (starts = 0 /\ child = "none")
    /\ (pc = "run_done" /\ FailingMembers # {}) =>
          /\ runErr = MemberErr(FirstFailing)
          /\ runErr = envErr
    /\ starts > 0 =>
          /\ envErr = "nil"
          /\ invoked = [i \in DOMAIN Members |-> i]
          /\ Len(cmd.Env) = EntriesBefore(Len(Members) + 1)
          /\ \A i \in DOMAIN Members : \A k \in DOMAIN MemberEnv(i) :
                cmd.Env[EntriesBefore(i) + k] = MemberEnv(i)[k]

\* C3 witness: Run has returned the failure of the second of three providers
\* without starting a child.
C3_Witness ==
    /\ pc = "run_done"
    /\ FailingMembers = {2}
    /\ runErr = "err1"
    /\ starts = 0
    /\ child = "none"

IsSpace(c) == c \in {" ", "\t"}

\* s cut into its maximal runs of characters that are not white space.
RECURSIVE FieldsFrom(_, _, _)
FieldsFrom(s, i, cur) ==
    IF i > Len(s) THEN (IF cur = <<>> THEN <<>> ELSE <<cur>>)
    ELSE IF IsSpace(s[i])
         THEN (IF cur = <<>> THEN <<>> ELSE <<cur>>) \o FieldsFrom(s, i + 1, <<>>)
         ELSE FieldsFrom(s, i + 1, Append(cur, s[i]))

\* The template after the expansion of its $VAR references, by the values
\* the process's own environment gives them.
Expanded == ExpandEnv(plugin.Command, osEnviron)

\* C6 as claimed: for a template that names an executable, the child's
\* argument vector is the white-space tokens of the expanded template
\* followed by ctx.Args unchanged, and none of its tokens before ctx.Args is
\* empty, consecutive white space and tabs included.
C6_WhitespaceTokens ==
    (CmdBuilt /\ \E i \in DOMAIN Expanded : ~IsSpace(Expanded[i])) =>
        /\ Argv = FieldsFrom(Expanded, 1, <<>>) \o ctx.Args
        /\ \A i \in 1..(Len(Argv) - Len(ctx.Args)) : Argv[i] # <<>>

\* C7: a child is started at most once, Run returns only after a started
\* child has exited, and Run fails exactly when the environment could not be
\* composed, the child could not be started or it exited with a status
\* other than zero.
C7_RunResult ==
    /\ starts <= 1
    /\ starts = 1 <=> child \in {"running", "exited"}
    /\ pc = "run_done" =>
          /\ child # "running"
          /\ runErr # "pending"
          /\ runErr # "nil" <=>
                \/ FailingMembers # {}
                \/ child = "startfailed"
                \/ (child = "exited" /\ exitStatus # 0)
          /\ runErr = "nil" => (child = "exited" /\ exitStatus = 0)
    /\ pc # "run_done" => runErr = "pending"

\* C7 witness: Run has returned the failure of a child that ran once and
\* exited with status 1.
C7_Witness ==
    /\ pc = "run_done"
    /\ starts = 1
    /\ child = "exited"
    /\ exitStatus = 1
    /\ runErr = "ErrExit"

\* C8: the executable and the argument vector are the same whatever
\* environment the context composes for the child: $VAR in the template is
\* resolved against the process's own environment only.
C8_ArgvIgnoresComposedEnv ==
    CmdBuilt =>
        /\ \A pl \in RunProviderLists :
              RunCommandLine(plugin, [ctx EXCEPT !.EnvProvider = pl], osEnviron)
                = [base |-> cmd.Path, args |-> cmd.Args]
        /\ (plugin.Command = <<"$", "V">> /\ osEnviron = << <<"V", "=", "a">> >>)
              => cmd.Path = <<"a">>

\* C8 witness: template "$V" with V=a in the process's environment and V=c
\* in the child's composed environment runs executable "a".
C8_Witness ==
    /\ pc = "run_wait"
    /\ plugin.Command = <<"$", "V">>
    /\ osEnviron = << <<"V", "=", "a">> >>
    /\ cmd.Env = <<eV>>
    /\ cmd.Path = <<"a">>
    /\ cmd.Args = ctx.Args

(***************************************************************************)
(* plugin.go: the command binder                                            *)
(***************************************************************************)
\* Plugin.IsValid: the descriptor has a name.
IsValid(p) == Len(p.Name) > 0

\* cobra's Command.AddCommand(x) on command c: x is dereferenced (its parent
\* is set) before it is appended to c's commands, so a nil x panics.
AddCommand(c, x) ==
    IF c.kind = "panic" \/ x.kind = "panic" THEN [kind |-> "panic"]
    ELSE IF x.kind = "nil" THEN [kind |-> "panic"]
    ELSE [c EXCEPT !.commands = Append(@, x)]

\* NewCmdForPlugin: nil for an invalid descriptor; else the command of the
\* descriptor, with AddCommand(NewCmdForPlugin(child)) for each child in turn.
RECURSIVE NewCmdForPlugin(_)
RECURSIVE AddPluginCommands(_, _, _)
AddPluginCommands(c, tree, i) ==
    IF i > Len(tree) \/ c.kind = "panic" THEN c
    ELSE AddPluginCommands(AddCommand(c, NewCmdForPlugin(tree[i])), tree, i + 1)

NewCmdForPlugin(p) ==
    IF ~IsValid(p) THEN NilCmd
    ELSE AddPluginCommands(
            [kind |-> "cmd", Use |-> p.Name, Short |-> p.ShortDesc,
             plugin |-> p, commands |-> <<>>],
            p.Tree, 1)

\* The top-level command of NewCmdPlugin before any plugin is added.
PluginRootCmd ==
    [kind |-> "cmd", Use |-> <<"p","l","u","g","i","n"," ","N","A","M","E">>,
     Short |-> <<>>, plugin |-> NilPlugin, commands |-> <<>>]

\* NewCmdPlugin: a command for each loaded plugin is added to the top-level
\* command; a panic ends the process.
NewCmdPlugin ==
    /\ pc = "load"
    /\ rootCmd' = IF Len(loaded) > 0
                  THEN AddPluginCommands(PluginRootCmd, loaded, 1)
                  ELSE PluginRootCmd
    /\ pc' = IF rootCmd'.kind = "panic" THEN "panic" ELSE "bound"
    /\ UNCHANGED <<nmVars, osEnviron, plugin, ctx, envVars, runVars, runCalls,
                   loaded, factory, executable, cmdFlags, cfgCalls>>

\* The commands of the tree under c, c itself left out.
RECURSIVE Subcommands(_)
Subcommands(c) ==
    UNION { {c.commands[i]} \cup Subcommands(c.commands[i]) : i \in DOMAIN c.commands }

\* The provider list with the factory's attributes ahead of the flags.
PluginEnvProvidersSwapped(p, flags, f, cfg) ==
    << [kind |-> "caller"],
       [kind |-> "os"],
       [kind |-> "descriptor", Plugin |-> p],
       [kind |-> "factoryAttrs", factory |-> f],
       [kind |-> "flags", cmd |-> flags],
       [kind |-> "restClientConfig", cfg |-> cfg] >>

\* The MultiRunningEnvProvider of lines 95-110.
PluginEnvProviders(p, flags, f, cfg) ==
    << [kind |-> "caller"],
       [kind |-> "os"],
       [kind |-> "descriptor", Plugin |-> p],
       [kind |-> "flags", cmd |-> flags],
       [kind |-> "factoryAttrs", factory |-> f],
       [kind |-> "restClientConfig", cfg |-> cfg] >>

\* cmdutil.CheckErr(err): a failure ends the process.
CheckErr(err, next) == IF err # "nil" THEN "fatal" ELSE next

\* The Run function with the client configuration resolved ahead of the
\* test for a plugin without a command.
PluginCmdRunResolveFirst ==
    /\ pc = "bound"
    /\ \E c \in Subcommands(rootCmd), args \in ArgLists :
          /\ plugin' = c.plugin
          /\ cfgCalls' = cfgCalls + 1
          /\ IF Len(c.plugin.Command) = 0
             THEN /\ pc' = CheckErr(factory.ClientConfig.err, "done")
                  /\ UNCHANGED ctx
             ELSE /\ pc' = CheckErr(factory.ClientConfig.err, "run_call")
                  /\ IF factory.ClientConfig.err # "nil"
                     THEN UNCHANGED ctx
                     ELSE ctx' = [Args |-> args,
                                  EnvProvider |->
                                     PluginEnvProviders(c.plugin, cmdFlags, factory,
                                                        factory.ClientConfig.val),
                                  WorkingDir |-> c.plugin.Dir]
    /\ UNCHANGED <<nmVars, osEnviron, envVars, runVars, runCalls, bindVars>>

\* The Run function of a plugin's command, up to the call of runner.Run: a
\* plugin without a command only prints its usage; else the client
\* configuration is resolved and the running context built.
PluginCmdRun ==
    /\ pc = "bound"
    /\ \E c \in Subcommands(rootCmd), args \in ArgLists :
          /\ plugin' = c.plugin
          /\ IF Len(c.plugin.Command) = 0
             THEN /\ pc' = "done"
                  /\ UNCHANGED <<ctx, cfgCalls>>
             ELSE /\ cfgCalls' = cfgCalls + 1
                  /\ pc' = CheckErr(factory.ClientConfig.err, "run_call")
                  /\ IF factory.ClientConfig.err # "nil"
                     THEN UNCHANGED ctx
                     ELSE ctx' = [Args |-> args,
                                  EnvProvider |->
                                     PluginEnvProviders(c.plugin, cmdFlags, factory,
                                                        factory.ClientConfig.val),
                                  WorkingDir |-> c.plugin.Dir]
    /\ UNCHANGED <<nmVars, osEnviron, envVars, runVars, runCalls, bindVars>>

\* The Run function of a plugin's command, lines 121-123: the runner's
\* failure ends the process.
PluginCmdDone ==
    /\ pc = "run_done"
    /\ pc' = CheckErr(runErr, "done")
    /\ UNCHANGED <<nmVars, osEnviron, plugin, ctx, envVars, runVars, runCalls,
                   bindVars, cfgCalls>>

(***************************************************************************)
(* Binding and executing bounded plugin trees                               *)
(***************************************************************************)
\* The nodes j is under, j itself included, in a tree given by its parents.
RECURSIVE AncestorsOrSelf(_, _)
AncestorsOrSelf(par, j) ==
    IF j = 0 THEN {0} ELSE {j} \cup AncestorsOrSelf(par, par[j])

\* The forests of n nodes numbered in preorder, each as the parent of every
\* node, 0 for a root.
ParentArrays(n) ==
    { par \in [1..n -> 0..n] :
        \A i \in 1..n :
            /\ par[i] < i
            /\ i > 1 => par[i] \in AncestorsOrSelf(par, i - 1) }

RECURSIVE Ascending(_)
Ascending(S) ==
    IF S = {} THEN <<>>
    ELSE LET m == CHOOSE x \in S : \A y \in S : x <= y
         IN  <<m>> \o Ascending(S \ {m})

RECURSIVE PluginNode(_, _, _)
PluginNode(par, lab, i) ==
    LET kids == Ascending({j \in DOMAIN par : par[j] = i})
    IN  [lab[i] EXCEPT !.Tree = [k \in DOMAIN kids |-> PluginNode(par, lab, kids[k])]]

PluginForest(par, lab) ==
    LET roots == Ascending({j \in DOMAIN par : par[j] = 0})
    IN  [k \in DOMAIN roots |-> PluginNode(par, lab, roots[k])]

PluginKinds ==
    { [NoPlugin EXCEPT !.Name = <<"s">>, !.ShortDesc = <<"d">>,
                       !.Command = <<"e">>, !.Dir = <<"/", "p">>],
      [NoPlugin EXCEPT !.Name = <<"t">>, !.Dir = <<"/", "p">>],
      [NoPlugin EXCEPT !.Command = <<"e">>] }

PluginForests ==
    UNION { { PluginForest(par, lab) : par \in ParentArrays(n), lab \in [1..n -> PluginKinds] }
            : n \in 0..MaxPlugins }

TheConfig ==
    [Host |-> <<"h">>, APIPath |-> <<"/","a">>, Prefix |-> <<>>,
     Username |-> <<"u">>, Password |-> <<"p">>, BearerToken |-> <<>>,
     ImpersonateUserName |-> <<>>, ImpersonateGroups |-> << <<"g">>, <<"k">> >>,
     Insecure |-> FALSE, ServerName |-> <<>>, CertFile |-> <<>>, KeyFile |-> <<>>,
     CAFile |-> <<"c">>, CertData |-> <<>>, KeyData |-> <<>>, CAData |-> <<>>,
     UserAgent |-> <<>>, Timeout |-> 30]

Factories ==
    { [ClientConfig |-> [val |-> TheConfig, err |-> "nil"],
       DefaultNamespace |-> [val |-> <<"n","s">>, err |-> "nil"]],
      [ClientConfig |-> [val |-> TheConfig, err |-> "nil"],
       DefaultNamespace |-> [val |-> <<>>, err |-> "ErrNamespace"]],
      [ClientConfig |-> [val |-> <<>>, err |-> "ErrClientConfig"],
       DefaultNamespace |-> [val |-> <<"n","s">>, err |-> "nil"]] }

Executables ==
    { [val |-> <<"/","k">>, err |-> "nil"], [val |-> <<>>, err |-> "ErrExecutable"] }

FlagSets ==
    { <<>>,
      << [Name |-> <<"l","o","g","-","d","i","r">>, Value |-> <<>>],
         [Name |-> <<"v">>, Value |-> <<"0">>] >> }

Init ==
    /\ pc = "load"
    /\ NamingIdle /\ EnvIdle /\ RunIdle
    /\ plugin = NoPlugin
    /\ ctx = NoCtx
    /\ rootCmd = NilCmd
    /\ cfgCalls = 0
    /\ osEnviron = << <<"V", "=", "a">> >>
    /\ loaded \in PluginForests
    /\ factory \in Factories
    /\ executable \in Executables
    /\ cmdFlags \in FlagSets

Next ==
    \/ NewCmdPlugin
    \/ PluginCmdRun
    \/ RunCommand
    \/ MultiEnvIter
    \/ MultiEnvReturn
    \/ RunEnvFailed
    \/ RunStart
    \/ RunWait
    \/ PluginCmdDone

Spec == Init /\ [][Next]_vars

(***************************************************************************)
(* Claims about the command binder (Spec)                                   *)
(***************************************************************************)
\* The kinds of the providers handed to the runner, in list order.
ProviderKinds == [i \in DOMAIN ctx.EnvProvider |-> ctx.EnvProvider[i].kind]

\* The bound command has called the runner and the environment is composed.
EnvComposed ==
    /\ pc \in {"env_done", "run_wait", "run_done", "done", "fatal"}
    /\ runCalls = 1
    /\ envErr = "nil"

\* C4 as claimed: the provider list handed to the runner is caller identity,
\* OS environment, plugin descriptor fields, the command's flags,
\* connection-config fields, so that in the composed environment the entry
\* after the last flag entry is a connection-config entry.
C4_FiveProviders ==
    /\ ctx.EnvProvider # <<>> =>
          ProviderKinds = <<"caller", "os", "descriptor", "flags", "restClientConfig">>
    /\ EnvComposed =>
          \A i \in 1..(Len(envRet) - 1) :
              (/\ HasPrefix(envRet[i], sGlobalFlagPrefix)
               /\ ~HasPrefix(envRet[i + 1], sGlobalFlagPrefix))
                 => HasPrefix(envRet[i + 1], sRestConfigPrefix)

\* C4 as amended: the provider list handed to the runner is caller identity,
\* OS environment, plugin descriptor fields, the command's flags, the
\* factory's current namespace, connection-config fields; in the composed
\* environment the flag entries are followed by the one
\* KUBECTL_PLUGINS_CURRENT_NAMESPACE entry and then by the 19
\* connection-config entries.
C4_SixProviders ==
    /\ ctx.EnvProvider # <<>> =>
          ProviderKinds = <<"caller", "os", "descriptor", "flags", "factoryAttrs",
                            "restClientConfig">>
    /\ EnvComposed =>
          LET nOS == Len(osEnviron)
              nF  == Len(cmdFlags)
          IN  /\ Len(envRet) = 1 + nOS + 5 + nF + 1 + 19
              /\ HasPrefix(envRet[1], sCallerKey \o <<"=">>)
              /\ \A k \in 1..nOS : envRet[1 + k] = osEnviron[k]
              /\ \A k \in 1..5 : HasPrefix(envRet[1 + nOS + k], sDescriptorPrefix)
              /\ \A k \in 1..nF : HasPrefix(envRet[6 + nOS + k], sGlobalFlagPrefix)
              /\ HasPrefix(envRet[7 + nOS + nF], sCurrentNamespaceKey \o <<"=">>)
              /\ \A k \in 1..19 :
                    HasPrefix(envRet[7 + nOS + nF + k], sRestConfigPrefix)
              /\ child \in {"running", "exited"} => cmd.Env = envRet

\* C4 witness: a plugin's command with two flags runs its child, in whose
\* environment the second flag's entry is followed by the current-namespace
\* entry and that by the first connection-config entry.
C4_Witness ==
    /\ pc = "run_wait"
    /\ Len(cmdFlags) = 2
    /\ Len(ctx.EnvProvider) = 6
    /\ LET n == 6 + Len(osEnviron) + Len(cmdFlags)
       IN  /\ HasPrefix(cmd.Env[n], sGlobalFlagPrefix)
           /\ HasPrefix(cmd.Env[n + 1], sCurrentNamespaceKey)
           /\ HasPrefix(cmd.Env[n + 2], sRestConfigPrefix)

\* The descriptors NewCmdForPlugin is called on: those of the list and,
\* under a valid one, those of its tree.
RECURSIVE BoundDescriptors(_)
BoundDescriptors(tree) ==
    UNION { {tree[i]} \cup (IF IsValid(tree[i]) THEN BoundDescriptors(tree[i].Tree) ELSE {})
            : i \in DOMAIN tree }

\* C5: binding a descriptor with an empty name, at top level or as a child,
\* is a silent skip: binding completes without failure and the command tree
\* holds commands only, none of them nil and none for that descriptor.
C5_InvalidSilentlySkipped ==
    (pc # "load" /\ \E p \in BoundDescriptors(loaded) : ~IsValid(p)) =>
        /\ pc # "panic"
        /\ rootCmd.kind = "cmd"
        /\ \A c \in Subcommands(rootCmd) : c.kind = "cmd" /\ IsValid(c.plugin)

\* The shape the binding of a valid descriptor is to have: its name and,
\* in order, the shapes of its valid children.
RECURSIVE DescriptorShape(_)
DescriptorShape(p) ==
    LET valid == SelectSeq(p.Tree, IsValid)
    IN  [name |-> p.Name,
         subs |-> [i \in DOMAIN valid |-> DescriptorShape(valid[i])]]

\* The shape of a bound command: its name and, in order, the shapes of its
\* subcommands.
RECURSIVE CmdShape(_)
CmdShape(c) ==
    [name |-> c.Use,
     subs |-> [i \in DOMAIN c.commands |-> CmdShape(c.commands[i])]]

\* C13: binding keeps the shape of the descriptor tree: once the loaded
\* descriptors, all valid at top level, are bound, each has a command with
\* its name whose subcommands are, one for one and in order, the bindings of
\* its valid children, and so on down the tree; a valid descriptor without
\* children has a command without subcommands.
C13_TreeShapePreserved ==
    (pc # "load" /\ \A i \in DOMAIN loaded : IsValid(loaded[i])) =>
        /\ rootCmd.kind = "cmd"
        /\ Len(rootCmd.commands) = Len(loaded)
        /\ \A i \in DOMAIN loaded :
              CmdShape(rootCmd.commands[i]) = DescriptorShape(loaded[i])

\* A plugin's command has been executed.
Executed == pc \notin {"load", "bound", "panic"}

\* C14: executing the command of a plugin with an empty command template
\* resolves no client configuration, composes no environment, calls no
\* runner and starts no child; the client configuration is resolved, once,
\* exactly when the template is not empty, the runner is called, once,
\* exactly when moreover the client configuration was resolved without
\* failure, and a failure to resolve it ends the execution with the runner
\* not called.
C14_EmptyTemplateRunsNothing ==
    /\ cfgCalls <= 1
    /\ runCalls <= 1
    /\ ~Executed => (cfgCalls = 0 /\ runCalls = 0)
    /\ (Executed /\ Len(plugin.Command) = 0) =>
          /\ pc = "done"
          /\ cfgCalls = 0
          /\ runCalls = 0
          /\ invoked = <<>>
          /\ envRet = <<>>
          /\ ctx = NoCtx
          /\ cmd = NoCmd
          /\ starts = 0
          /\ child = "none"
    /\ (Executed /\ Len(plugin.Command) > 0) => cfgCalls = 1
    /\ runCalls = 1 => (cfgCalls = 1 /\ factory.ClientConfig.err = "nil")
    /\ (Executed /\ Len(plugin.Command) > 0 /\ factory.ClientConfig.err # "nil") =>
          /\ pc = "fatal"
          /\ runCalls = 0
          /\ invoked = <<>>
          /\ starts = 0
    /\ (pc \in {"done", "fatal"} /\ Len(plugin.Command) > 0
           /\ factory.ClientConfig.err = "nil") => runCalls = 1

\* C14 witness: the command of the valid plugin t, whose command template
\* is empty, has been executed and is done with no client configuration
\* resolved, no runner called and no child started.
C14_Witness ==
    /\ pc = "done"
    /\ plugin.Name = <<"t">>
    /\ Len(plugin.Command) = 0
    /\ cfgCalls = 0
    /\ runCalls = 0
    /\ starts = 0

(***************************************************************************)
(* runner.go: PluginDescriptorEnvProvider.Env over bounded descriptors      *)
(***************************************************************************)
\* The provider's Env(), its Plugin field being the variable plugin.
DescriptorEnv ==
    /\ pc = "descriptor"
    /\ LET r == PluginDescriptorEnv(plugin)
       IN  /\ envRet' = r.env
           /\ envErr' = r.err
    /\ pc' = "descriptor_done"
    /\ UNCHANGED <<nmVars, bindVars, cfgCalls, runCalls, osEnviron, plugin, ctx,
                   envIdx, envAcc, invoked, runVars>>

\* Descriptors whose fields are empty or hold the characters an environment
\* entry is built with; the command template ranges over Templates.
Descriptors ==
    { [NoPlugin EXCEPT !.Name = n, !.ShortDesc = sd, !.LongDesc = ld,
                       !.Example = ex, !.Command = c] :
        n  \in { <<>>, <<"s">> },
        sd \in { <<>>, <<"d", " ", "d">> },
        ld \in { <<>>, <<"l", "=", "1">> },
        ex \in { <<>>, <<"$", "V">> },
        c  \in Templates }

InitDescriptor ==
    /\ pc = "descriptor"
    /\ NamingIdle /\ EnvIdle /\ RunIdle /\ BindIdle
    /\ osEnviron = << <<"V", "=", "a">> >>
    /\ ctx = NoCtx
    /\ plugin \in {NilPlugin} \cup Descriptors

NextDescriptor == DescriptorEnv

SpecDescriptor == InitDescriptor /\ [][NextDescriptor]_vars

\* C11: PluginDescriptorEnvProvider.Env fails, with no entries, exactly when
\* its Plugin is nil; otherwise it returns no error and exactly five entries,
\* KUBECTL_PLUGINS_DESCRIPTOR_NAME, _SHORT_DESC, _LONG_DESC, _EXAMPLE and
\* _COMMAND in this order, each followed by "=" and the descriptor's field
\* as it is, the command template not expanded.
C11_DescriptorEnv ==
    pc = "descriptor_done" =>
        /\ envErr # "nil" <=> "nil" \in DOMAIN plugin
        /\ "nil" \in DOMAIN plugin => envRet = <<>>
        /\ "nil" \notin DOMAIN plugin =>
              envRet = << sDescriptorPrefix \o <<"N","A","M","E","=">> \o plugin.Name,
                          sDescriptorPrefix \o <<"S","H","O","R","T","_","D","E","S","C","=">>
                              \o plugin.ShortDesc,
                          sDescriptorPrefix \o <<"L","O","N","G","_","D","E","S","C","=">>
                              \o plugin.LongDesc,
                          sDescriptorPrefix \o <<"E","X","A","M","P","L","E","=">>
                              \o plugin.Example,
                          sDescriptorPrefix \o <<"C","O","M","M","A","N","D","=">>
                              \o plugin.Command >>

\* C11 witness: a descriptor with the command template $V, V being set in
\* the process environment, has given five entries, the last one
\* KUBECTL_PLUGINS_DESCRIPTOR_COMMAND=$V.
C11_Witness ==
    /\ pc = "descriptor_done"
    /\ "nil" \notin DOMAIN plugin
    /\ plugin.Command = <<"$", "V">>
    /\ Getenv(<<"V">>, osEnviron) = <<"a">>
    /\ envErr = "nil"
    /\ Len(envRet) = 5
    /\ envRet[5] = sDescriptorPrefix \o <<"C","O","M","M","A","N","D","=","$","V">>

====
